---- MODULE Spec2Model ----
(***************************************************************************)
(* Model of src/model/stbln.py: the weight initializer, BilinearMapping,   *)
(* TemporalConvolution, ST_BLN_block and the STBLN network.                *)
(*                                                                         *)
(* A tensor is modelled by what the claims are about: whether the call     *)
(* that produced it raised (ok, err), its shape, whether it is identically *)
(* zero by construction (z) and the set of sources (the input x and the    *)
(* named parameters) its values are computed from (deps).  A parameter is  *)
(* modelled by the distribution or constant its initializer gave it.       *)
(* Rationals are pairs <<numerator, denominator>>.                         *)
(***************************************************************************)
EXTENDS Integers, Sequences, FiniteSets, TLC

VARIABLES net, out, ref, call

vars == <<net, out, ref, call>>

(***************************************************************************)
(* Bounds of the model.                                                    *)
(***************************************************************************)
MaxN == 2
MaxT == 2
MaxTrack == 1
MaxOpt == 1
MaxC == 2
MaxG == 3
MaxK == 4
MaxS == 2

(***************************************************************************)
(* Rationals and parameter values.                                         *)
(***************************************************************************)
Rat(n, d) == <<n, d>>

RatEq(a, b) == a[1] * b[2] = b[1] * a[2]

One == Rat(1, 1)

Const(r) == [kind |-> "const", val |-> r]

Normal(var) == [kind |-> "normal", val |-> var]

\* The layer constructors' own (random) reset_parameters for Conv2d / Linear.
DefaultUniform == [kind |-> "uniform", val |-> Rat(0, 1)]

\* A parameter an optimizer has already moved.
Trained == [kind |-> "trained", val |-> Rat(0, 1)]

IsConst(p, r) == p.kind = "const" /\ RatEq(p.val, r)

IsZeroParam(p) == IsConst(p, Rat(0, 1))

(***************************************************************************)
(* Layers as the torch constructors leave them.                            *)
(***************************************************************************)
NewConv2d(cin, cout, kh, kw, ph, sh) ==
    [type |-> "Conv2d", cin |-> cin, cout |-> cout, kh |-> kh, kw |-> kw,
     ph |-> ph, sh |-> sh, weight |-> DefaultUniform, bias |-> DefaultUniform]

NewBatchNorm2d(c) ==
    [type |-> "BatchNorm2d", cin |-> c, cout |-> c, kh |-> 1, kw |-> 1,
     ph |-> 0, sh |-> 1, weight |-> Const(One), bias |-> Const(Rat(0, 1))]

NewBatchNorm1d(c) ==
    [type |-> "BatchNorm1d", cin |-> c, cout |-> c, kh |-> 1, kw |-> 1,
     ph |-> 0, sh |-> 1, weight |-> Const(One), bias |-> Const(Rat(0, 1))]

NewLinear(cin, cout) ==
    [type |-> "Linear", cin |-> cin, cout |-> cout, kh |-> 1, kw |-> 1,
     ph |-> 0, sh |-> 1, weight |-> DefaultUniform, bias |-> DefaultUniform]

NewDropout ==
    [type |-> "Dropout", cin |-> 0, cout |-> 0, kh |-> 1, kw |-> 1,
     ph |-> 0, sh |-> 1, weight |-> Const(Rat(0, 1)), bias |-> Const(Rat(0, 1))]

\* module_.weight.size(i) of a Conv2d: [out_channels, in_channels, kh, kw].
WeightSize(m) == <<m.cout, m.cin, m.kh, m.kw>>

(***************************************************************************)
(* weights_init(module_, bs): lines 19-31.  bs is a rational.              *)
(***************************************************************************)
\* kaiming_normal_(mode='fan_out'): std = sqrt(2 / (out_channels * kh * kw)).
KaimingFanOut(m) == Normal(Rat(2, m.cout * m.kh * m.kw))

\* line 25: the variance 2 / (size(0) * size(1) * size(2) * bs).
BranchVariance(m, bs) ==
    Rat(2 * bs[2], WeightSize(m)[1] * WeightSize(m)[2] * WeightSize(m)[3] * bs[1])

\* The branch weights_init takes for a normalization layer (line 27).
IsNormLayer(m) == m.type = "BatchNorm2d"

weights_init(m, bs) ==
    IF m.type = "Conv2d" /\ RatEq(bs, One)
    THEN [m EXCEPT !.weight = KaimingFanOut(m), !.bias = Const(Rat(0, 1))]
    ELSE IF m.type = "Conv2d"
    THEN [m EXCEPT !.weight = Normal(BranchVariance(m, bs)), !.bias = Const(Rat(0, 1))]
    ELSE IF IsNormLayer(m)
    THEN [m EXCEPT !.weight = Const(bs), !.bias = Const(Rat(0, 1))]
    ELSE IF m.type = "Linear"
    THEN [m EXCEPT !.weight = Normal(Rat(2 * bs[2], bs[1]))]
    ELSE m

(***************************************************************************)
(* Tensors.                                                                *)
(*   ok, err : whether the computation so far raised, and what             *)
(*   shape   : torch.Size                                                  *)
(*   z       : identically zero by construction                            *)
(*   deps    : the sources (input, parameters) the values depend on        *)
(*   bnt     : how many normalization layers, in execution order, had      *)
(*             their num_batches_tracked bumped so far in this pass        *)
(*   bnm     : how many had their running moments updated                  *)
(***************************************************************************)
Tensor(shape, z, deps, bnt, bnm) ==
    [ok |-> TRUE, err |-> "", shape |-> shape, z |-> z, deps |-> deps,
     bnt |-> bnt, bnm |-> bnm]

Raise(msg, x) ==
    [ok |-> FALSE, err |-> msg, shape |-> <<>>, z |-> FALSE, deps |-> {},
     bnt |-> x.bnt, bnm |-> x.bnm]

\* The Python integer 0 returned by `lambda x: 0` (line 100).
Scalar0(x) == Tensor(<<>>, TRUE, {}, x.bnt, x.bnm)

Name(layer, mod) == [layer |-> layer, mod |-> mod]

Src(nm, p) == [layer |-> nm.layer, mod |-> nm.mod, p |-> p]

XSrc == [layer |-> 0, mod |-> "input", p |-> "x"]

IsBias(s) == s.p = "bias"

\* The value a parameter has at a forward call: its initial value until an
\* optimizer step has changed it.
Eff(p, env) == IF env.trained THEN Trained ELSE p

Prod(s) == IF Len(s) = 0 THEN 1
           ELSE IF Len(s) = 1 THEN s[1]
           ELSE IF Len(s) = 2 THEN s[1] * s[2]
           ELSE IF Len(s) = 3 THEN s[1] * s[2] * s[3]
           ELSE IF Len(s) = 4 THEN s[1] * s[2] * s[3] * s[4]
           ELSE s[1] * s[2] * s[3] * s[4] * s[5]

MaxOf(a, b) == IF a >= b THEN a ELSE b

\* Set union, evaluated eagerly.
Union2(A, B) == LET U == A \cup B IN IF U = {} THEN {} ELSE U

\* torch broadcasting: shapes aligned at the trailing dimension.
DimAt(s, i, n) == IF i + Len(s) - n >= 1 THEN s[i + Len(s) - n] ELSE 1

Broadcastable(s1, s2) ==
    LET n == MaxOf(Len(s1), Len(s2))
    IN \A i \in 1..n : \/ DimAt(s1, i, n) = DimAt(s2, i, n)
                       \/ DimAt(s1, i, n) = 1
                       \/ DimAt(s2, i, n) = 1

BroadcastShape(s1, s2) ==
    LET n == MaxOf(Len(s1), Len(s2))
    IN [i \in 1..n |-> MaxOf(DimAt(s1, i, n), DimAt(s2, i, n))]

\* a + b, the left operand evaluated first: when it raised, b never ran.
Add(a, b) ==
    IF ~a.ok THEN a
    ELSE IF ~b.ok THEN b
    ELSE IF ~Broadcastable(a.shape, b.shape)
    THEN Raise("size mismatch in add", b)
    ELSE Tensor(BroadcastShape(a.shape, b.shape), a.z /\ b.z, Union2(a.deps, b.deps),
                MaxOf(a.bnt, b.bnt), MaxOf(a.bnm, b.bnm))

\* a += b : the result must fit the storage of a.
IAdd(a, b) ==
    LET r == Add(a, b)
    IN IF r.ok /\ r.shape # a.shape
       THEN Raise("output shape does not match the broadcast shape", r)
       ELSE r

ReLU(x) == x

\* nn.Dropout: zeroes and rescales entries in training mode, identity in
\* evaluation mode; either way shape, zero-ness and sources are kept.
Dropout(x) == x

(***************************************************************************)
(* nn.Conv2d with kernel (kh, kw), padding (ph, 0), stride (sh, 1).        *)
(***************************************************************************)
ConvOut(len, k, pad, stride) == ((len + 2 * pad - k) \div stride) + 1

Conv2dForward(m, nm, x, env) ==
    IF ~x.ok THEN x
    ELSE IF Len(x.shape) # 4 THEN Raise("Conv2d expects a 4-D input", x)
    ELSE IF x.shape[2] # m.cin THEN Raise("Conv2d channel mismatch", x)
    ELSE IF x.shape[3] + 2 * m.ph < m.kh \/ x.shape[4] < m.kw
    THEN Raise("kernel size can't be greater than actual input size", x)
    ELSE Tensor(<<x.shape[1], m.cout,
                  ConvOut(x.shape[3], m.kh, m.ph, m.sh),
                  ConvOut(x.shape[4], m.kw, 0, 1)>>,
                x.z /\ IsZeroParam(Eff(m.bias, env)),
                IF x.z THEN {Src(nm, "bias")}
                ELSE Union2(x.deps, {Src(nm, "weight"), Src(nm, "bias")}),
                x.bnt, x.bnm)

(***************************************************************************)
(* nn.BatchNorm1d / nn.BatchNorm2d.  In training mode the layer bumps      *)
(* num_batches_tracked, refuses a batch with one value per channel,        *)
(* normalizes with the batch statistics and folds them into the running    *)
(* moments; in evaluation mode it normalizes with the running moments and  *)
(* writes nothing.                                                         *)
(***************************************************************************)
\* The position of a normalization layer in the order a pass runs them:
\* data_bn, then per block gcn.bn, gcn.gcn_residual.1, tcn.bn, residual.bn
\* (layer1 has no residual.bn).
BNOrder(nm) ==
    IF nm.layer = 0 THEN 1
    ELSE LET base == IF nm.layer = 1 THEN 1 ELSE 4 * (nm.layer - 1)
         IN base + (IF nm.mod = "gcn.bn" THEN 1
                    ELSE IF nm.mod = "gcn.gcn_residual.1" THEN 2
                    ELSE IF nm.mod = "tcn.bn" THEN 3 ELSE 4)

\* Mutant of UpdatesStats: the buffers are written in evaluation mode too.
UpdatesStatsAlways(training) == TRUE

\* F.batch_norm(..., training=self.training): the buffers are written in
\* training mode only.
UpdatesStats(training) == training

\* A pass runs the normalization layers in a fixed order, so the layers whose
\* running moments have left their initial value (0, 1) are the first
\* env.stale of that order.
Fresh(env, nm) == BNOrder(nm) > env.stale

BatchNormForward(m, nm, x, env) ==
    IF ~x.ok THEN x
    ELSE LET t == IF UpdatesStats(env.training) THEN x.bnt + 1 ELSE x.bnt
             x1 == [x EXCEPT !.bnt = t]
         IN IF env.training /\ Prod(x.shape) = x.shape[2]
            THEN Raise("Expected more than 1 value per channel when training", x1)
            ELSE IF x.shape[2] # m.cin
            THEN Raise("running_mean should contain as many elements as channels", x1)
            ELSE LET plain == x.z /\ (env.training \/ Fresh(env, nm))
                 IN Tensor(x.shape,
                           plain /\ IsZeroParam(Eff(m.bias, env)),
                           IF plain THEN {Src(nm, "bias")}
                           ELSE Union2(x.deps, {Src(nm, "weight"), Src(nm, "bias")}),
                           t,
                           IF UpdatesStats(env.training) THEN x.bnm + 1 ELSE x.bnm)

\* nn.Linear on [N, in_features].
LinearForward(m, nm, x, env) ==
    IF ~x.ok THEN x
    ELSE IF x.shape[Len(x.shape)] # m.cin THEN Raise("Linear size mismatch", x)
    ELSE Tensor(<<x.shape[1], m.cout>>,
                x.z /\ IsZeroParam(Eff(m.bias, env)),
                IF x.z THEN {Src(nm, "bias")}
                ELSE Union2(x.deps, {Src(nm, "weight"), Src(nm, "bias")}),
                x.bnt, x.bnm)

(***************************************************************************)
(* BilinearMapping: lines 34-73.                                           *)
(***************************************************************************)
num_subset == 3

BilinearMappingNew(in_channels, out_channels, graph_dim1, graph_dim2) ==
    [graph_dim1 |-> graph_dim1,
     graph_dim2 |-> graph_dim2,
     g_conv |-> [i \in 1..num_subset |->
                    weights_init(NewConv2d(in_channels, out_channels, 1, 1, 0, 1),
                                 Rat(num_subset, 1))],
     gcn_residual |->
        IF graph_dim1 # graph_dim2
        THEN <<weights_init(NewConv2d(in_channels, out_channels,
                                      graph_dim2, graph_dim1, 0, 1), One),
               weights_init(NewBatchNorm2d(out_channels), One)>>
        ELSE <<NewConv2d(in_channels, out_channels, 1, 1, 0, 1),
               NewBatchNorm2d(out_channels)>>,
     bn |-> weights_init(NewBatchNorm2d(out_channels), Rat(1, 1000000))]

GConvName(i) == IF i = 1 THEN "gcn.g_conv.0"
                ELSE IF i = 2 THEN "gcn.g_conv.1" ELSE "gcn.g_conv.2"

\* line 69: torch.matmul(x.view(N, C*T, V), A[i]).view(N, C, T, A.size(2))
MatmulGraph(self, li, x) ==
    IF ~x.ok THEN x
    ELSE IF x.shape[4] # self.graph_dim1
    THEN Raise("mat1 and mat2 shapes cannot be multiplied", x)
    ELSE Tensor(<<x.shape[1], x.shape[2], x.shape[3], self.graph_dim2>>,
                x.z,
                IF x.z THEN {} ELSE Union2(x.deps, {Src(Name(li, "gcn"), "rand_graph")}),
                x.bnt, x.bnm)

\* line 69 for subset i
SubsetTerm(self, li, x, env, i) ==
    Conv2dForward(self.g_conv[i], Name(li, GConvName(i)), MatmulGraph(self, li, x), env)

\* line 72: self.gcn_residual(x)
GcnResidual(self, li, x, env) ==
    BatchNormForward(self.gcn_residual[2], Name(li, "gcn.gcn_residual.1"),
        Conv2dForward(self.gcn_residual[1], Name(li, "gcn.gcn_residual.0"), x, env),
        env)

\* env.cuda: x is on a CUDA device, and the module with it; line 65 moves
\* rand_graph to the CUDA device x.get_device() names, which a CPU tensor has
\* none of, so that the call raises at line 65 or at the matmul of line 69.
BilinearMappingForward(self, li, x, env) ==
    IF ~x.ok THEN x
    ELSE IF ~env.cuda
    THEN Raise("rand_graph moved to a CUDA device, x is not on it", x)
    ELSE LET h1 == SubsetTerm(self, li, x, env, 1)
             h2 == Add(SubsetTerm(self, li, x, env, 2), h1)
             h3 == Add(SubsetTerm(self, li, x, env, 3), h2)
             hb == BatchNormForward(self.bn, Name(li, "gcn.bn"), h3, env)
         IN IF ~hb.ok THEN hb
            ELSE ReLU(IAdd(hb, GcnResidual(self, li, [x EXCEPT !.bnt = hb.bnt,
                                                               !.bnm = hb.bnm], env)))

(***************************************************************************)
(* TemporalConvolution: lines 76-89.                                       *)
(***************************************************************************)
DefaultKernel == 9

\* Mutants of Pad: no padding, and padding rounded up.
PadZero(kernel_size_) == 0

PadCeil(kernel_size_) == kernel_size_ \div 2

\* line 80: pad = int((kernel_size_ - 1) / 2)
Pad(kernel_size_) == (kernel_size_ - 1) \div 2

TemporalConvolutionNew(in_channels, out_channels, kernel_size_joint, kernel_size_, stride) ==
    [t_conv |-> weights_init(NewConv2d(in_channels, out_channels, kernel_size_,
                                       kernel_size_joint, Pad(kernel_size_), stride), One),
     bn |-> weights_init(NewBatchNorm2d(out_channels), One)]

TName(pre, sub) ==
    IF pre = "tcn" THEN (IF sub = "t_conv" THEN "tcn.t_conv" ELSE "tcn.bn")
    ELSE (IF sub = "t_conv" THEN "residual.t_conv" ELSE "residual.bn")

TemporalConvolutionForward(self, li, pre, x, env) ==
    BatchNormForward(self.bn, Name(li, TName(pre, "bn")),
        Conv2dForward(self.t_conv, Name(li, TName(pre, "t_conv")), x, env), env)

(***************************************************************************)
(* ST_BLN_block: lines 92-110.                                             *)
(***************************************************************************)
\* Mutant of ResidualNew: the residual flag is ignored.
ResidualNewAlways(in_channels, out_channels, graph_dim1, graph_dim2, stride, residual) ==
    IF graph_dim1 # graph_dim2
    THEN <<TemporalConvolutionNew(in_channels, out_channels, graph_dim1,
                                  DefaultKernel, stride)>>
    ELSE <<TemporalConvolutionNew(in_channels, out_channels, 1, DefaultKernel, stride)>>

\* lines 99-106: the block-level residual path; <<>> stands for `lambda x: 0`.
ResidualNew(in_channels, out_channels, graph_dim1, graph_dim2, stride, residual) ==
    IF ~residual THEN <<>>
    ELSE IF graph_dim1 # graph_dim2
    THEN <<TemporalConvolutionNew(in_channels, out_channels, graph_dim1,
                                  DefaultKernel, stride)>>
    ELSE <<TemporalConvolutionNew(in_channels, out_channels, 1, DefaultKernel, stride)>>

ST_BLN_blockNew(in_channels, out_channels, graph_dim1, graph_dim2, stride, residual) ==
    [gcn |-> BilinearMappingNew(in_channels, out_channels, graph_dim1, graph_dim2),
     tcn |-> TemporalConvolutionNew(out_channels, out_channels, 1, DefaultKernel, stride),
     residual |-> ResidualNew(in_channels, out_channels, graph_dim1, graph_dim2,
                              stride, residual)]

\* self.residual(x)
ResidualForward(self, li, x, env) ==
    IF self.residual = <<>> THEN Scalar0(x)
    ELSE TemporalConvolutionForward(self.residual[1], li, "residual", x, env)

\* self.tcn(self.gcn(x))
MainPath(self, li, x, env) ==
    TemporalConvolutionForward(self.tcn, li, "tcn",
                               BilinearMappingForward(self.gcn, li, x, env), env)

ST_BLN_blockForward(self, li, x, env) ==
    IF ~x.ok THEN x
    ELSE LET m == MainPath(self, li, x, env)
         IN IF ~m.ok THEN m
            ELSE ReLU(Add(m, ResidualForward(self, li, [x EXCEPT !.bnt = m.bnt,
                                                                 !.bnm = m.bnm], env)))

(***************************************************************************)
(* STBLN: lines 113-145.                                                   *)
(***************************************************************************)
\* lines 121-127: the channel widths of layer1..layer7 (layer1 takes 2).
Widths == <<2, 8, 16, 16, 32, 32, 64, 64>>

NumLayers == Len(Widths) - 1

DefaultConfig == [num_class |-> 6, num_point |-> 51, num_person |-> 1, in_channels |-> 2]

STBLNNew(cfg) ==
    [data_bn |-> weights_init(
                    NewBatchNorm1d(cfg.num_person * cfg.in_channels * cfg.num_point), One),
     layers |-> [i \in 1..NumLayers |->
                    ST_BLN_blockNew(Widths[i], Widths[i + 1], cfg.num_point,
                                    cfg.num_point, 1, i # 1)],
     fc |-> weights_init(NewLinear(Widths[NumLayers + 1], cfg.num_class),
                         Rat(cfg.num_class, 1))]

\* The normalization layers of an STBLN, by name.
BNNames ==
    {Name(0, "data_bn")}
    \cup {Name(i, m) : i \in 1..NumLayers, m \in {"gcn.bn", "gcn.gcn_residual.1", "tcn.bn"}}
    \cup {Name(i, "residual.bn") : i \in 2..NumLayers}

FreshStats == [nm \in BNNames |-> [n |-> 0, rm |-> <<>>]]

\* An input tensor [N, C, T, V, M], all zeros or not, on a CUDA device or not.
Input(N, C, T, V, M, zero, cuda) ==
    [N |-> N, C |-> C, T |-> T, V |-> V, M |-> M, zero |-> zero, cuda |-> cuda]

\* line 135: x.permute(0, 4, 3, 1, 2).contiguous().view(N, M * V * C, T)
InputView(x) ==
    Tensor(<<x.N, x.M * x.V * x.C, x.T>>, x.zero, IF x.zero THEN {} ELSE {XSrc}, 0, 0)

\* line 137: x.view(N, M, V, C, T).permute(0, 1, 3, 4, 2).contiguous().view(N*M, C, T, V)
BlockView(t, x) ==
    IF ~t.ok THEN t ELSE [t EXCEPT !.shape = <<x.N * x.M, x.C, x.T, x.V>>]

\* lines 138-140: dropout, then layer i, for i = 1..n
RECURSIVE Stack(_, _, _, _)
Stack(self, n, t, env) ==
    IF n = 0 THEN t
    ELSE ST_BLN_blockForward(self.layers[n], n, Dropout(Stack(self, n - 1, t, env)), env)

\* lines 142-144: x.view(N, M, c_new, -1).mean(3).mean(1)
Pool(t, x) ==
    IF ~t.ok THEN t
    ELSE IF Prod(t.shape) % (x.N * x.M * t.shape[2]) # 0
    THEN Raise("shape is invalid for input size", t)
    ELSE [t EXCEPT !.shape = <<x.N, t.shape[2]>>]

STBLNForward(self, x, env) ==
    LET t1 == BatchNormForward(self.data_bn, Name(0, "data_bn"), InputView(x), env)
        t2 == Stack(self, NumLayers, BlockView(t1, x), env)
    IN LinearForward(self.fc, Name(0, "fc"), Pool(t2, x), env)

(***************************************************************************)
(* The network as a state machine: construction, train()/eval(), forward   *)
(* passes and the steps of the external optimizer.                         *)
(*   net : cfg, the constructed modules, the training flag, the version of *)
(*         the learned parameters and the normalization layers' buffers    *)
(*   out : the last forward call and its outcome                           *)
(*   ref : the first evaluation-mode pass since the model last changed,    *)
(*         kept to compare later passes with                               *)
(***************************************************************************)
Configs == {[DefaultConfig EXCEPT !.in_channels = c] : c \in {2, 3}}

ZeroInput == Input(2, 2, 30, 51, 1, TRUE, TRUE)

\* The time lengths of the inputs of the network: one frame, and more.
Lengths == {1, 2}

\* Two-channel inputs of every batch size and length, the all-zero input, a
\* three-channel input and an input left on the CPU.
Inputs ==
    {Input(N, 2, T, 51, 1, FALSE, TRUE) : N \in 1..MaxN, T \in Lengths}
    \cup {ZeroInput, Input(2, 3, 2, 51, 1, FALSE, TRUE), Input(1, 2, 2, 51, 1, FALSE, FALSE)}

\* How many normalization layers hold running moments a pass has written.
Stale(stats) == Cardinality({nm \in BNNames : stats[nm].rm # <<>>})

MakeEnv(training, trained, stale, cuda) ==
    [training |-> training, trained |-> trained, stale |-> stale, cuda |-> cuda]

\* STBLNForward over the configurations and inputs of the model, computed once.
Computed(f) == IF f = f THEN f ELSE f

ForwardTable ==
    Computed([cfg \in Configs, x \in Inputs, training \in BOOLEAN, trained \in BOOLEAN,
              stale \in 0..Cardinality(BNNames) |->
                 STBLNForward(STBLNNew(cfg), x, MakeEnv(training, trained, stale, x.cuda))])

\* Mutant of DropoutMasks: dropout stays active in evaluation mode.
DropoutMasksAlways(training) == {1, 2}

\* nn.Dropout(p=0.2): the masks a call can draw (two of them stand for all);
\* 0 is "no mask".
DropoutMasks(training) == IF training THEN {1, 2} ELSE {0}

\* The buffers after a pass that ran the first t.bnt (t.bnm) normalization layers.
StatsAfter(stats, t, x) ==
    [nm \in BNNames |->
        [n |-> IF BNOrder(nm) <= t.bnt THEN stats[nm].n + 1 ELSE stats[nm].n,
         rm |-> IF BNOrder(nm) <= t.bnm THEN <<x>> ELSE stats[nm].rm]]

\* What the values of the returned logits are a function of.
ValueOf(x, mask) ==
    [x |-> x, pver |-> net.pver, mask |-> mask,
     moments |-> IF net.training THEN <<>> ELSE <<[nm \in BNNames |-> net.stats[nm].rm]>>]

Outcome(t, x, mask) ==
    [ok |-> t.ok, err |-> t.err, shape |-> t.shape, z |-> t.z, deps |-> t.deps,
     val |-> IF t.ok THEN <<ValueOf(x, mask)>> ELSE <<>>]

NoCall == [called |-> FALSE]

Idle == [fn |-> "none"]

Construct(cfg) ==
    [cfg |-> cfg, training |-> TRUE, pver |-> 0,
     stats |-> FreshStats]

Init ==
    /\ net \in {Construct(cfg) : cfg \in Configs}
    /\ out = NoCall
    /\ ref = <<>>
    /\ call = Idle

\* model.train()
Train ==
    /\ ~net.training
    /\ net' = [net EXCEPT !.training = TRUE]
    /\ ref' = <<>>
    /\ UNCHANGED <<out, call>>

\* model.eval()
Eval ==
    /\ net.training
    /\ net' = [net EXCEPT !.training = FALSE]
    /\ UNCHANGED <<out, ref, call>>

\* One step of the external optimizer: every learned parameter moves.
OptimizerStep ==
    /\ net.pver < MaxOpt
    /\ net' = [net EXCEPT !.pver = net.pver + 1]
    /\ ref' = <<>>
    /\ UNCHANGED <<out, call>>

\* model(x)
\* The caller receives o for x.
Returned(x, o) ==
    /\ out' = [called |-> TRUE, x |-> x, training |-> net.training, res |-> o]
    /\ ref' = IF net.training THEN ref
              ELSE IF ref = <<>> THEN <<[x |-> x, res |-> o, between |-> FALSE]>>
              ELSE IF ref[1].x = x THEN ref
              ELSE <<[ref[1] EXCEPT !.between = TRUE]>>

\* The pass t of the network over x, under the dropout mask drawn.
Pass(x, t, mask) ==
    /\ Returned(x, Outcome(t, x, mask))
    /\ net' = [net EXCEPT !.stats = StatsAfter(net.stats, t, x)]

Forward(x) ==
    /\ net.training => net.stats[Name(0, "data_bn")].n < MaxTrack
    /\ \E mask \in DropoutMasks(net.training) :
         Pass(x, ForwardTable[net.cfg, x, net.training, net.pver > 0, Stale(net.stats)], mask)
    /\ UNCHANGED call

ForwardStep == \E x \in Inputs : Forward(x)

Next == Train \/ Eval \/ OptimizerStep \/ ForwardStep

Spec == Init /\ [][Next]_vars

(***************************************************************************)
(* The parts on their own: weights_init applied to a layer, and one        *)
(* forward call of a BilinearMapping, a TemporalConvolution or an          *)
(* ST_BLN_block built with arguments from bounded sets.  call is the last  *)
(* such call with its arguments and outcome.                               *)
(***************************************************************************)
Channels == 1..MaxC

Dims == 1..MaxG

Kernels == 1..MaxK

Strides == 1..MaxS

\* The scale divisors the repository passes (1, num_subset, 1e-6, num_class).
Scales == {One, Rat(num_subset, 1), Rat(1, 1000000), Rat(DefaultConfig.num_class, 1)}

\* A layer whose parameters an optimizer has moved since construction.
Used(m) == [m EXCEPT !.weight = Trained, !.bias = Trained]

FreshLayers ==
    {NewConv2d(i, o, kh, kw, 0, 1) : i \in Channels, o \in Channels,
                                     kh \in Kernels, kw \in Dims}
    \cup {NewBatchNorm2d(c) : c \in Channels}
    \cup {NewBatchNorm1d(c) : c \in Channels}
    \cup {NewLinear(i, o) : i \in Channels, o \in Channels}
    \cup {NewDropout}

Layers == FreshLayers \cup {Used(m) : m \in FreshLayers \ {NewDropout}}

\* A non-zero input tensor of the given shape.
Data(shape) == Tensor(shape, FALSE, {XSrc}, 0, 0)

PartEnv(training) == MakeEnv(training, FALSE, 0, TRUE)

InitCall ==
    /\ call = Idle
    /\ \E m \in Layers, bs \in Scales :
           call' = [fn |-> "weights_init", m |-> m, bs |-> bs, after |-> weights_init(m, bs)]
    /\ UNCHANGED <<net, out, ref>>

BilinearMappingCall ==
    /\ call = Idle
    /\ \E i \in Channels, o \in Channels, g1 \in Dims, g2 \in Dims,
          N \in 1..MaxN, T \in 1..MaxT, training \in BOOLEAN :
           call' = [fn |-> "BilinearMapping", in_channels |-> i, out_channels |-> o,
                    graph_dim1 |-> g1, graph_dim2 |-> g2, N |-> N, T |-> T,
                    training |-> training,
                    res |-> BilinearMappingForward(BilinearMappingNew(i, o, g1, g2), 1,
                                                   Data(<<N, i, T, g1>>), PartEnv(training))]
    /\ UNCHANGED <<net, out, ref>>

TemporalConvolutionCall ==
    /\ call = Idle
    /\ \E i \in Channels, o \in Channels, kj \in Dims, k \in Kernels, stride \in Strides,
          N \in 1..MaxN, T \in 1..MaxT, V \in Dims, training \in BOOLEAN :
           call' = [fn |-> "TemporalConvolution", in_channels |-> i, out_channels |-> o,
                    kernel_size_joint |-> kj, kernel_size_ |-> k, stride |-> stride,
                    N |-> N, T |-> T, V |-> V, training |-> training,
                    res |-> TemporalConvolutionForward(
                               TemporalConvolutionNew(i, o, kj, k, stride), 1, "tcn",
                               Data(<<N, i, T, V>>), PartEnv(training))]
    /\ UNCHANGED <<net, out, ref>>

BlockCall ==
    /\ call = Idle
    /\ \E i \in Channels, o \in Channels, g1 \in Dims, g2 \in Dims, stride \in Strides,
          residual \in BOOLEAN, N \in 1..MaxN, T \in 1..MaxT, training \in BOOLEAN :
           LET self == ST_BLN_blockNew(i, o, g1, g2, stride, residual)
               x == Data(<<N, i, T, g1>>)
               main == MainPath(self, 1, x, PartEnv(training))
           IN call' = [fn |-> "ST_BLN_block", in_channels |-> i, out_channels |-> o,
                       graph_dim1 |-> g1, graph_dim2 |-> g2, stride |-> stride,
                       residual |-> residual, N |-> N, T |-> T, training |-> training,
                       main |-> main,
                       resid |-> IF main.ok
                                 THEN <<ResidualForward(self, 1, x, PartEnv(training))>>
                                 ELSE <<>>,
                       res |-> ST_BLN_blockForward(self, 1, x, PartEnv(training))]
    /\ UNCHANGED <<net, out, ref>>

InitParts ==
    /\ net = Construct(DefaultConfig)
    /\ out = NoCall
    /\ ref = <<>>
    /\ call = Idle

\* Each behaviour is one call on freshly built parts.
NextParts == InitCall \/ BilinearMappingCall \/ TemporalConvolutionCall \/ BlockCall

SpecParts == InitParts /\ [][NextParts]_vars

(***************************************************************************)
(* Properties of the network (specification Spec).                         *)
(***************************************************************************)
\* The input has the shape [N, in_channels, T, num_point, num_person] of cfg.
Matches(cfg, x) == x.C = cfg.in_channels /\ x.V = cfg.num_point /\ x.M = cfg.num_person

\* The last forward call returned logits of shape [N, num_class].
ReturnsLogits == out.res.ok /\ out.res.shape = <<out.x.N, net.cfg.num_class>>

OneValuePerChannel(x) == x.N * x.T = 1

\* C1 as claimed: a default STBLN returns [N, num_class] for every input of
\* shape [N, 2, T, 51, 1] with N >= 1 and T >= 1 (inputs on the CUDA device).
C1_AnyInputReturnsLogits ==
    (out.called /\ net.cfg = DefaultConfig /\ Matches(DefaultConfig, out.x)
       /\ out.x.cuda)
        => ReturnsLogits

\* C1 as amended: a default STBLN returns [N, num_class] for every input of
\* shape [N, 2, T, 51, 1] that is on the CUDA device and, when the model is in
\* training mode, has N * T > 1; in training mode with N = T = 1 the input
\* normalization raises, and an input that is not on the CUDA device raises.
C1_ReturnsLogits ==
    (out.called /\ net.cfg = DefaultConfig /\ Matches(DefaultConfig, out.x))
        => /\ (out.x.cuda /\ (out.training => ~OneValuePerChannel(out.x)))
                 => ReturnsLogits
           /\ (out.training /\ OneValuePerChannel(out.x))
                 => (~out.res.ok /\ out.res.err =
                        "Expected more than 1 value per channel when training")
           /\ ~out.x.cuda => ~out.res.ok

\* C1 witness: a default STBLN has returned logits for N = T = 1 in evaluation
\* mode.
C1_Witness ==
    /\ out.called /\ net.cfg = DefaultConfig /\ Matches(DefaultConfig, out.x)
    /\ ~out.training /\ OneValuePerChannel(out.x) /\ ReturnsLogits

\* C5 as claimed: a forward pass, in training or evaluation mode, leaves all
\* the model keeps between calls unchanged.
C5_ForwardChangesNothing == [][ForwardStep => net' = net]_vars

\* C5 as amended: a forward pass never changes a learned parameter, the mode or
\* the configuration, and in evaluation mode it also leaves the normalization
\* layers' buffers (running statistics, num_batches_tracked) unchanged.
C5_ForwardFrame ==
    [][ForwardStep =>
          /\ net'.pver = net.pver /\ net'.cfg = net.cfg /\ net'.training = net.training
          /\ ~net.training => net'.stats = net.stats]_vars

\* C5 witness: an evaluation-mode pass has returned on a model whose running
\* statistics an earlier training-mode pass had written.
C5_Witness ==
    out.called /\ ~out.training /\ out.res.ok /\ Stale(net.stats) = Cardinality(BNNames)

\* C6: while the model stays in evaluation mode and no optimizer step is
\* taken, every forward pass on an input returns what the first pass on that
\* input returned, whatever passes on other inputs ran in between.
C6_Deterministic ==
    (out.called /\ ~out.training /\ ref # <<>> /\ out.x = ref[1].x)
        => out.res = ref[1].res

\* C6 witness: a second evaluation-mode pass on an input has returned logits
\* after passes on other inputs, on a model with written running statistics.
C6_Witness ==
    /\ out.called /\ ~out.training /\ ref # <<>>
    /\ out.x = ref[1].x /\ ref[1].between /\ out.res.ok
    /\ Stale(net.stats) > 0

\* C7 as claimed: for every configuration, in_channels = 3 included, an input
\* of shape [N, in_channels, T, num_point, num_person] yields logits of shape
\* [N, num_class] (inputs on the CUDA device; N * T > 1 in training mode).
C7_InChannelsHonoured ==
    (out.called /\ Matches(net.cfg, out.x) /\ out.x.cuda
       /\ (out.training => ~OneValuePerChannel(out.x)))
        => ReturnsLogits

\* The layer a source names, in the module tree of an STBLN.
LayerOf(self, d) ==
    IF d.layer = 0
    THEN (IF d.mod = "data_bn" THEN self.data_bn ELSE self.fc)
    ELSE LET b == self.layers[d.layer]
         IN CASE d.mod = "gcn.g_conv.0" -> b.gcn.g_conv[1]
              [] d.mod = "gcn.g_conv.1" -> b.gcn.g_conv[2]
              [] d.mod = "gcn.g_conv.2" -> b.gcn.g_conv[3]
              [] d.mod = "gcn.gcn_residual.0" -> b.gcn.gcn_residual[1]
              [] d.mod = "gcn.gcn_residual.1" -> b.gcn.gcn_residual[2]
              [] d.mod = "gcn.bn" -> b.gcn.bn
              [] d.mod = "tcn.t_conv" -> b.tcn.t_conv
              [] d.mod = "tcn.bn" -> b.tcn.bn
              [] d.mod = "residual.t_conv" -> b.residual[1].t_conv
              [] OTHER -> b.residual[1].bn

\* The initial value of the bias a source names.
BiasOf(self, d) == LayerOf(self, d).bias

\* The last call was a pass in evaluation mode on the all-zero input
\* [2, 2, 30, 51, 1] by a default STBLN as constructed.
ZeroPass ==
    /\ out.called /\ out.x = ZeroInput /\ ~out.training
    /\ net.cfg = DefaultConfig /\ net.pver = 0 /\ Stale(net.stats) = 0

\* C8 as claimed: on the all-zero input the output has shape [2, 6], no weight
\* contributes to it, and every bias that reaches it has the constant value
\* weights_init gave it.
C8_ZeroInputBiasOnly ==
    ZeroPass =>
        /\ out.res.ok /\ out.res.shape = <<2, 6>>
        /\ \A d \in out.res.deps :
              IsBias(d) /\ BiasOf(STBLNNew(net.cfg), d).kind = "const"

(***************************************************************************)
(* Properties of the parts (specification SpecParts).                      *)
(***************************************************************************)
IsNormalization(m) == m.type \in {"BatchNorm1d", "BatchNorm2d"}

\* C2 as claimed: BilinearMapping.forward on [N, in_channels, T, graph_dim1]
\* returns [N, out_channels, T, graph_dim2], graph_dim1 # graph_dim2 included
\* (batches with more than one value per channel in training mode).
C2_OutputJointDim ==
    (call.fn = "BilinearMapping"
       /\ (call.training => call.N * call.T * call.graph_dim2 > 1))
        => /\ call.res.ok
           /\ call.res.shape = <<call.N, call.out_channels, call.T, call.graph_dim2>>

\* C3: in a block built with residual=False the residual path contributes the
\* integer 0, which depends on nothing, and the block returns
\* relu(tcn(gcn(x))) unchanged.
C3_NoResidual ==
    (call.fn = "ST_BLN_block" /\ ~call.residual)
        => /\ call.res = ReLU(call.main)
           /\ call.main.ok =>
                /\ call.resid[1].z
                /\ call.resid[1].deps = {}
                /\ call.resid[1].shape = <<>>

\* C3 witness: a block built with residual=False has returned a tensor that
\* depends on its input.
C3_Witness ==
    /\ call.fn = "ST_BLN_block" /\ ~call.residual
    /\ call.res.ok /\ XSrc \in call.res.deps

\* C4 as claimed: weights_init zeroes the bias of a convolution for bs = 1,
\* sets weight = bs and bias = 0 on every normalization layer, BatchNorm1d
\* included, and leaves layers it does not know unchanged.
C4_InitContract ==
    call.fn = "weights_init" =>
        /\ (call.m.type = "Conv2d" /\ RatEq(call.bs, One)) => IsZeroParam(call.after.bias)
        /\ IsNormalization(call.m)
              => (IsConst(call.after.weight, call.bs) /\ IsZeroParam(call.after.bias))
        /\ call.m.type \notin {"Conv2d", "BatchNorm1d", "BatchNorm2d", "Linear"}
              => call.after = call.m

\* C9 as claimed: with stride 1 a TemporalConvolution returns the time length
\* it was given for every kernel height, odd or even, and with joint kernel 1
\* the joint dimension it was given.
C9_TimePreservedAnyKernel ==
    (call.fn = "TemporalConvolution" /\ call.stride = 1 /\ call.kernel_size_joint = 1
       /\ (call.training => call.N * call.T * call.V > 1))
        => /\ call.res.ok
           /\ call.res.shape = <<call.N, call.out_channels, call.T, call.V>>

\* C9 as amended: with stride 1 a TemporalConvolution returns the time length
\* it was given for every odd kernel height, and one step less for every even
\* kernel height (raising when the padded input is shorter than the kernel);
\* the time length never grows, the joint dimension is kept when the joint
\* kernel is 1, and an ST_BLN_block with stride 1 keeps the time length.
C9_TimePreservedOddKernel ==
    /\ (call.fn = "TemporalConvolution" /\ call.stride = 1 /\ call.kernel_size_ % 2 = 1
          /\ call.kernel_size_joint <= call.V
          /\ (call.training
                => call.N * call.T * (call.V - call.kernel_size_joint + 1) > 1))
         => (call.res.ok /\ call.res.shape[3] = call.T)
    /\ (call.fn = "TemporalConvolution" /\ call.res.ok)
         => /\ call.res.shape[3] <= call.T
            /\ (call.stride = 1 /\ call.kernel_size_ % 2 = 0)
                  => call.res.shape[3] = call.T - 1
            /\ call.kernel_size_joint = 1 => call.res.shape[4] = call.V
    /\ (call.fn = "ST_BLN_block" /\ call.res.ok)
         => /\ call.res.shape[3] <= call.T
            /\ call.stride = 1 => call.res.shape[3] = call.T

\* C9 witness: a stride-1 TemporalConvolution with an even kernel height has
\* returned a tensor one time step shorter than its input.
C9_Witness ==
    /\ call.fn = "TemporalConvolution" /\ call.stride = 1
    /\ call.kernel_size_ % 2 = 0 /\ call.res.ok
    /\ call.res.shape[3] = call.T - 1

\* C10 as claimed: for bs # 1 weights_init draws the weights of a convolution
\* from a zero-mean normal of variance 2 / (out_channels * kh * kw * bs) and
\* zeroes its bias.
C10_BranchVariance ==
    (call.fn = "weights_init" /\ call.m.type = "Conv2d" /\ ~RatEq(call.bs, One))
        => /\ call.after.weight.kind = "normal"
           /\ RatEq(call.after.weight.val,
                    Rat(2 * call.bs[2],
                        call.m.cout * call.m.kh * call.m.kw * call.bs[1]))
           /\ IsZeroParam(call.after.bias)

====
